---------------------------- MODULE Spec2Model ----------------------------
(***************************************************************************)
(* A model of inestool.py: the iNES header codec (parse_header,            *)
(* make_ines_header), the checksum pass (_make_file_info), the file and    *)
(* zip container handlers, the database loader (load_db) and the write     *)
(* driver (visit_roms with cmd_write's update_rom_header).                 *)
(*                                                                         *)
(* Python values are modelled as follows.  A bytes object is a sequence of *)
(* integers 0..255.  An optional value (None or an object) is a sequence   *)
(* of length 0 or 1.  A bool is the integer 0 or 1 (Python's True == 1).   *)
(* A call that can raise returns a record [exc, val]: exc = "none" when it *)
(* returns val, and otherwise exc names the exception and val is <<>>.     *)
(***************************************************************************)
EXTENDS Integers, Sequences, FiniteSets, TLC

VARIABLES
    \* --- header codec -------------------------------------------------------
    rom_info,    \* the ROMInfo handed to make_ines_header (None when bytes are the input)
    header,      \* the bytes handed to parse_header
    made,        \* outcome of make_ines_header(rom_info), or Pending
    parsed       \* outcome of parse_header(header), or Pending

codecVars == <<rom_info, header, made, parsed>>

VARIABLES
    \* --- a bare file and its FileIOHandler ----------------------------------
    file,        \* the bytes of the file at FilePath
    listing,     \* outcome of the last enumeration of the handler, or NoListing
    applied,     \* the last update call: its requests, the bytes before it, its outcome
    budget       \* update requests this behaviour may still submit (to any handler)

fileVars == <<file, listing, applied, budget>>

VARIABLES
    \* --- a zip archive and its ZipIOHandler ---------------------------------
    archive,     \* the members of the archive at ZipPath, in order: [name, data]
    updates,     \* self._updates
    temp_left,   \* temporary archives left beside the archive
    zapplied,    \* the last update call: its requests, what it found, its outcome
    gen          \* the enumeration (generator of __iter__) in progress

zipVars == <<archive, updates, temp_left, zapplied, gen>>

VARIABLES
    \* --- load_db ------------------------------------------------------------
    corpus,      \* the elements whose "end" event the XML parser delivers, in order
    pos,         \* index of the next element of corpus
    db,          \* the dict being built: checksum -> ROMInfo
    log,         \* the warnings logged, in order
    status       \* "loading", "done" (db returned) or "raised" (an exception left load_db)

dbVars == <<corpus, pos, db, log, status>>

VARIABLES
    \* --- cmd_write: visit_roms on one path, with update_rom_header -----------
    dry_run,         \* args.dry_run
    visit_requests,  \* visit_roms' list "requests" for the handler
    visited,         \* the items handed to the visitor so far: what it printed and returned
    visit_state,     \* "start", "iterating", "finished", or "raised" (an exception left visit_roms)
    pass             \* the runs of cmd_write that have ended

writeVars == <<dry_run, visit_requests, visited, visit_state, pass>>

VARIABLES
    \* --- ROMInfo.diff ---------------------------------------------------------
    diff_self,       \* the record diff is called on
    diff_other,      \* its argument
    diff_result      \* the dict it returned, or Pending

diffVars == <<diff_self, diff_other, diff_result>>

vars == <<codecVars, fileVars, zipVars, dbVars, writeVars, diffVars>>

----------------------------------------------------------------------------
(* Bounds of the model.                                                    *)

\* Unit counts 0..MaxUnits (and the extreme 255) are tried for the size fields.
MaxUnits == 1

\* Payloads (the bytes of an entity after its first 16) have 0..MaxPayload bytes.
MaxPayload == 3

\* The model's READ_SIZE (65536 in the source): bytes returned by one
\* file_obj.read(READ_SIZE), scaled down so that a payload takes several reads.
ReadSize == 2

\* Update requests submitted to a handler in one behaviour, over all its
\* update calls.
MaxRequests == 1

\* Members of a zip archive.
MaxMembers == 2

\* Elements of the database corpus.
MaxCorpus == 3

\* Runs of cmd_write over one file.
MaxPasses == 2

----------------------------------------------------------------------------
(* Integer bit operations (Python's &, |, <<, >> on non-negative ints).    *)

RECURSIVE BitAnd(_, _)
BitAnd(a, b) ==
    IF a = 0 \/ b = 0 THEN 0
    ELSE (a % 2) * (b % 2) + 2 * BitAnd(a \div 2, b \div 2)

RECURSIVE BitOr(_, _)
BitOr(a, b) ==
    IF a = 0 THEN b
    ELSE IF b = 0 THEN a
    ELSE (IF a % 2 = 1 \/ b % 2 = 1 THEN 1 ELSE 0) + 2 * BitOr(a \div 2, b \div 2)

Shl(a, n) == a * (2 ^ n)

Shr(a, n) == a \div (2 ^ n)

\* Python's bool(x) for an int x.
Bool(x) == IF x /= 0 THEN 1 ELSE 0

Ok(v) == [exc |-> "none", val |-> v]

Raise(e) == [exc |-> e, val |-> <<>>]

None == <<>>

Some(v) == <<v>>

----------------------------------------------------------------------------
(* class ROMInfo                                                           *)

MIRROR_HORIZONTAL == 0
MIRROR_VERTICAL == 1
MIRROR_FOUR_SCREEN == 8
MIRROR_FOUR_SCREEN_ODD == 9
MIRROR_CONTROLLED == 16

TV_NTSC == 0
TV_PAL == 1
TV_BOTH == 2

FIELDS ==
    {"prg_rom_size", "prg_ram_size", "chr_rom_size", "mapper", "mirroring",
     "tv_system", "has_nvram", "has_trainer", "is_playchoice_10",
     "is_vs_unisystem"}

\* ROMInfo.__init__, arguments in its order: prg_rom_size, prg_ram_size,
\* chr_rom_size, mapper, mirroring, tv_system, has_nvram, has_trainer,
\* is_playchoice_10, is_vs_unisystem.
ROMInfo(prg_rom, prg_ram, chr_rom, mapper, mirroring, tv, nvram, trainer, pc10, vs) ==
    [prg_rom_size |-> prg_rom, prg_ram_size |-> prg_ram,
     chr_rom_size |-> chr_rom, mapper |-> mapper, mirroring |-> mirroring,
     tv_system |-> tv, has_nvram |-> nvram, has_trainer |-> trainer,
     is_playchoice_10 |-> pc10, is_vs_unisystem |-> vs]

\* _is_ignored_mirroring_diff without the four-screen test
is_ignored_mirroring_diff_AnyControlled(mirror_val_a, mirror_val_b) ==
    BitAnd(BitOr(mirror_val_a, mirror_val_b), MIRROR_CONTROLLED) = MIRROR_CONTROLLED

\* ROMInfo._is_ignored_mirroring_diff
is_ignored_mirroring_diff(mirror_val_a, mirror_val_b) ==
    BitAnd(BitOr(mirror_val_a, mirror_val_b),
           BitOr(MIRROR_CONTROLLED, MIRROR_FOUR_SCREEN)) = MIRROR_CONTROLLED

\* ROMInfo.diff: the dict of differences, attr -> (self_val, other_val)
diff(self, other) ==
    [attr \in {f \in FIELDS :
                 /\ self[f] /= other[f]
                 /\ ~ \/ (f = "mirroring" /\ is_ignored_mirroring_diff(self[f], other[f]))
                      \/ (f = "tv_system" /\ TV_BOTH \in {self[f], other[f]})}
        |-> <<self[attr], other[attr]>>]

----------------------------------------------------------------------------
(* parse_header                                                            *)

MIN_HEADER_READ_SIZE == 16

MAGIC_NES == <<78, 69, 83, 26>>     \* b"NES\x1a"
MAGIC_UNIF == <<85, 78, 73, 70>>    \* b"UNIF"

\* bytes.startswith
StartsWith(bytes, prefix) ==
    /\ Len(bytes) >= Len(prefix)
    /\ SubSeq(bytes, 1, Len(prefix)) = prefix

\* header_bytes[i] with Python's 0-based index.
At(bytes, i) == bytes[i + 1]

\* parse_header without the check of the trainer bit.
parse_header_NoTrainerCheck(header_bytes) ==
    IF ~(Len(header_bytes) >= MIN_HEADER_READ_SIZE) THEN Raise("AssertionError")
    ELSE IF StartsWith(header_bytes, MAGIC_UNIF) THEN Raise("SkipROM")
    ELSE IF ~StartsWith(header_bytes, MAGIC_NES) THEN Ok(None)
    ELSE IF BitAnd(At(header_bytes, 7), 12) = 8 THEN Raise("SkipROM")
    ELSE Ok(Some(ROMInfo(
        At(header_bytes, 4) * 16384,
        At(header_bytes, 8) * 8192,
        At(header_bytes, 5) * 8192,
        BitAnd(At(header_bytes, 7), 240) + Shr(BitAnd(At(header_bytes, 6), 240), 4),
        BitAnd(At(header_bytes, 6), 9),
        BitAnd(At(header_bytes, 9), 1),
        Bool(BitAnd(At(header_bytes, 6), 2)),
        Bool(BitAnd(At(header_bytes, 6), 4)),
        Bool(BitAnd(At(header_bytes, 7), 2)),
        Bool(BitAnd(At(header_bytes, 7), 1)))))

parse_header(header_bytes) ==
    IF ~(Len(header_bytes) >= MIN_HEADER_READ_SIZE) THEN Raise("AssertionError")
    ELSE IF StartsWith(header_bytes, MAGIC_UNIF) THEN Raise("SkipROM")
    ELSE IF ~StartsWith(header_bytes, MAGIC_NES) THEN Ok(None)
    ELSE IF BitAnd(At(header_bytes, 7), 12) = 8 THEN Raise("SkipROM")
    ELSE IF BitAnd(At(header_bytes, 6), 4) /= 0 THEN Raise("SkipROM")
    ELSE Ok(Some(ROMInfo(
        At(header_bytes, 4) * 16384,
        At(header_bytes, 8) * 8192,
        At(header_bytes, 5) * 8192,
        BitAnd(At(header_bytes, 7), 240) + Shr(BitAnd(At(header_bytes, 6), 240), 4),
        BitAnd(At(header_bytes, 6), 9),
        BitAnd(At(header_bytes, 9), 1),
        Bool(BitAnd(At(header_bytes, 6), 2)),
        Bool(BitAnd(At(header_bytes, 6), 4)),
        Bool(BitAnd(At(header_bytes, 7), 2)),
        Bool(BitAnd(At(header_bytes, 7), 1)))))

----------------------------------------------------------------------------
(* make_ines_header                                                        *)

\* int(math.ceil(n / 8192.0)) for n >= 0
CeilDiv8192(n) == (n + 8191) \div 8192

make_ines_header(r) ==
    IF BitAnd(r.prg_rom_size, 16383) /= 0 \/ r.prg_rom_size > 255 * 16384
       \/ r.prg_rom_size < 0
    THEN Raise("Exception: PRG ROM size")
    ELSE IF BitAnd(r.chr_rom_size, 8191) /= 0 \/ r.chr_rom_size > 255 * 8192
            \/ r.chr_rom_size < 0
    THEN Raise("Exception: CHR ROM size")
    ELSE IF r.mapper < 0 \/ r.mapper > 255
    THEN Raise("Exception: mapper")
    ELSE IF r.prg_ram_size > 255 * 8192 \/ r.prg_ram_size < 0
    THEN Raise("Exception: PRG RAM size")
    ELSE
        LET prg_rom == r.prg_rom_size \div 16384
            chr_rom == r.chr_rom_size \div 8192
            flags_6 == BitOr(BitOr(BitOr(Shl(BitAnd(r.mapper, 15), 4),
                                         BitAnd(r.mirroring, 15)),
                                   Shl(r.has_trainer, 2)),
                             Shl(r.has_nvram, 1))
            flags_7 == BitOr(BitOr(BitAnd(r.mapper, 240),
                                   Shl(r.is_playchoice_10, 1)),
                             r.is_vs_unisystem)
            prg_ram == CeilDiv8192(r.prg_ram_size)
            flags_9 == BitAnd(r.tv_system, 1)
        IN  Ok(MAGIC_NES \o <<prg_rom, chr_rom, flags_6, flags_7, prg_ram, flags_9>>)

----------------------------------------------------------------------------
(* binascii.crc32 and the "%08X" format.  A checksum (a 32-bit value) is   *)
(* the tuple of its four bytes, least significant first.                   *)

\* A tuple built from a function on 1..n at once.
Tuple(f) == f \o <<>>

RECURSIVE BitXor(_, _)
BitXor(a, b) ==
    IF a = 0 THEN b
    ELSE IF b = 0 THEN a
    ELSE ((a + b) % 2) + 2 * BitXor(a \div 2, b \div 2)

\* 0xEDB88320, the reflected ISO-3309 polynomial.
CRC_POLY == <<32, 131, 184, 237>>

CRC_ZERO == <<0, 0, 0, 0>>

Xor32(a, b) ==
    <<BitXor(a[1], b[1]), BitXor(a[2], b[2]), BitXor(a[3], b[3]), BitXor(a[4], b[4])>>

\* c >> 1
ShiftRight1(c) ==
    <<c[1] \div 2 + 128 * (c[2] % 2), c[2] \div 2 + 128 * (c[3] % 2),
      c[3] \div 2 + 128 * (c[4] % 2), c[4] \div 2>>

CrcShift(c) == IF c[1] % 2 = 1 THEN Xor32(ShiftRight1(c), CRC_POLY) ELSE ShiftRight1(c)

\* The lookup table of the byte-wise algorithm: entry n + 1 is n shifted
\* through the polynomial eight times.
CRC_TABLE ==
    Tuple([k \in 1 .. 256 |->
        CrcShift(CrcShift(CrcShift(CrcShift(CrcShift(CrcShift(CrcShift(CrcShift(
            <<k - 1, 0, 0, 0>>))))))))])

\* c = table[(c ^ b) & 0xFF] ^ (c >> 8)
CrcByte(c, b) == Xor32(CRC_TABLE[BitXor(c[1], b) + 1], <<c[2], c[3], c[4], 0>>)

\* c ^ 0xFFFFFFFF
Not32(c) == <<255 - c[1], 255 - c[2], 255 - c[3], 255 - c[4]>>

RECURSIVE CrcRun(_, _)
CrcRun(c, data) ==
    IF data = <<>> THEN c
    ELSE LET next == CrcByte(c, Head(data))
         IN  \* (the test makes TLC compute the register byte by byte)
             IF Len(next) = 4 THEN CrcRun(next, Tail(data)) ELSE next

\* binascii.crc32(data, crc)
crc32(data, crc) == Not32(CrcRun(Not32(crc), data))

HEX_DIGITS ==
    <<"0", "1", "2", "3", "4", "5", "6", "7", "8", "9", "A", "B", "C", "D", "E", "F">>

\* "%02X" of one byte
FormatByte(b) == <<HEX_DIGITS[(b \div 16) + 1], HEX_DIGITS[(b % 16) + 1]>>

\* "%08X" % (crc & 0xFFFFFFFF,)
FormatCrc(c) == FormatByte(c[4]) \o FormatByte(c[3]) \o FormatByte(c[2]) \o FormatByte(c[1])

----------------------------------------------------------------------------
(* class FileInfo, IOHandler._make_file_info                               *)

FileInfo(name, crc, info, handler_data) ==
    [name |-> name, crc32 |-> crc, rom_info |-> info, handler_data |-> handler_data]

Min(a, b) == IF a < b THEN a ELSE b

\* file_obj.read(n) at the head of the unread bytes
Read(unread, n) == SubSeq(unread, 1, Min(n, Len(unread)))

Unread(unread, n) == SubSeq(unread, Min(n, Len(unread)) + 1, Len(unread))

\* the "while True: data = file_obj.read(READ_SIZE)" loop
RECURSIVE ReadLoop(_, _)
ReadLoop(unread, crc) ==
    LET data == Read(unread, ReadSize)
        next == crc32(data, crc)
    IN  IF data = <<>> THEN crc
        ELSE IF Len(next) = 4 THEN ReadLoop(Unread(unread, ReadSize), next) ELSE next

\* The same loop, with the first checksum seeded from the header bytes even
\* when a header was parsed.
make_file_info_HeaderSummed(name, content, handler_data) ==
    LET header_bytes == Read(content, MIN_HEADER_READ_SIZE)
        p == parse_header(header_bytes)
    IN  IF p.exc /= "none" THEN Raise(p.exc)
        ELSE Ok(FileInfo(name,
                FormatCrc(ReadLoop(Unread(content, MIN_HEADER_READ_SIZE),
                                   crc32(header_bytes, CRC_ZERO))),
                p.val, handler_data))

make_file_info(name, content, handler_data) ==
    LET header_bytes == Read(content, MIN_HEADER_READ_SIZE)
        p == parse_header(header_bytes)
    IN  IF p.exc /= "none" THEN Raise(p.exc)
        ELSE LET crc == IF p.val /= None THEN CRC_ZERO
                        ELSE crc32(header_bytes, CRC_ZERO)
             IN  Ok(FileInfo(name,
                     FormatCrc(ReadLoop(Unread(content, MIN_HEADER_READ_SIZE), crc)),
                     p.val, handler_data))

----------------------------------------------------------------------------
(* class UpdateRequest, WritableIOHandler._update_file                     *)

REQ_HEADER_INSERT == 1
REQ_HEADER_REPLACE == 2

\* A request carries its file_info (here its name and handler_data), its type
\* and the ROMInfo to write.
UpdateRequest(name, handler_data, req_type, info) ==
    [name |-> name, handler_data |-> handler_data, type |-> req_type, rom_info |-> info]

\* open(path, "r+b").write(header_bytes): overwrite from offset 0
Overwrite(content, bytes) ==
    IF Len(bytes) >= Len(content) THEN bytes
    ELSE bytes \o SubSeq(content, Len(bytes) + 1, Len(content))

\* _update_file on a file holding content: the content it leaves, and the
\* exception it ends with ("none" when it returns).
RECURSIVE update_file(_, _)
update_file(content, requests) ==
    IF requests = <<>> THEN [content |-> content, exc |-> "none"]
    ELSE LET request == Head(requests)
             h == make_ines_header(request.rom_info)
         IN  IF h.exc /= "none" THEN [content |-> content, exc |-> h.exc]
             ELSE IF request.type = REQ_HEADER_REPLACE
             THEN update_file(Overwrite(content, h.val), Tail(requests))
             ELSE IF request.type = REQ_HEADER_INSERT
             THEN update_file(h.val \o content, Tail(requests))
             ELSE [content |-> content, exc |-> "Exception: unknown request type"]

----------------------------------------------------------------------------
(* class FileIOHandler                                                     *)

FilePath == "rom.nes"

OtherPath == "other.nes"

\* FileIOHandler.__iter__ run to its end: the items it yields and how it ends.
FileIter(content) ==
    LET r == make_file_info(FilePath, content, None)
    IN  IF r.exc = "SkipROM" THEN [items |-> <<>>, exc |-> "none"]
        ELSE IF r.exc /= "none" THEN [items |-> <<>>, exc |-> r.exc]
        ELSE [items |-> <<r.val>>, exc |-> "none"]

\* FileIOHandler.update
FileUpdateResult(content, requests) ==
    IF \E i \in 1 .. Len(requests) : requests[i].name /= FilePath
    THEN [content |-> content, exc |-> "Exception: can only accept requests for path"]
    ELSE update_file(content, requests)

----------------------------------------------------------------------------
(* class ZipIOHandler                                                      *)

ZipPath == "roms.zip"

\* os.path.join(self._path, name)
FullName(name) == <<ZipPath, name>>

\* The generator of ZipIOHandler.__iter__ resumed with the loop about to
\* take member i of the namelist it opened (snapshot): it runs to its next
\* yield, to its end, or to an exception.  g is the generator's record.
\* The generator without its test of self._updates.
RECURSIVE ZipIterFrom_NoCheck(_, _, _)
ZipIterFrom_NoCheck(g, i, self_updates) ==
    IF i > Len(g.snapshot) THEN [g EXCEPT !.status = "done"]
    ELSE LET name == g.snapshot[i].name
             r == make_file_info(FullName(name), g.snapshot[i].data, Some(name))
         IN  IF r.exc = "SkipROM" THEN ZipIterFrom_NoCheck(g, i + 1, self_updates)
             ELSE IF r.exc /= "none" THEN [g EXCEPT !.status = "failed", !.exc = r.exc]
             ELSE [g EXCEPT !.status = "suspended", !.pos = i,
                            !.items = Append(g.items, r.val)]

RECURSIVE ZipIterFrom(_, _, _)
ZipIterFrom(g, i, self_updates) ==
    IF i > Len(g.snapshot) THEN [g EXCEPT !.status = "done"]
    ELSE IF self_updates /= g.expected_updates
    THEN [g EXCEPT !.status = "failed",
                   !.exc = "Exception: iterator invalidated by concurrent modification"]
    ELSE LET name == g.snapshot[i].name
             r == make_file_info(FullName(name), g.snapshot[i].data, Some(name))
         IN  IF r.exc = "SkipROM" THEN ZipIterFrom(g, i + 1, self_updates)
             ELSE IF r.exc /= "none" THEN [g EXCEPT !.status = "failed", !.exc = r.exc]
             ELSE [g EXCEPT !.status = "suspended", !.pos = i,
                            !.items = Append(g.items, r.val)]

\* requests_by_file[name], in the order of the requests
RECURSIVE RequestsFor(_, _)
RequestsFor(requests, name) ==
    IF requests = <<>> THEN <<>>
    ELSE IF Head(requests).handler_data = Some(name)
    THEN <<Head(requests)>> \o RequestsFor(Tail(requests), name)
    ELSE RequestsFor(Tail(requests), name)

\* The member loop of ZipIOHandler.update from member i on, new_zip holding
\* the members written to the temporary archive so far.
RECURSIVE ZipRebuild(_, _, _, _)
ZipRebuild(orig, requests, i, new_zip) ==
    IF i > Len(orig) THEN [new_zip |-> new_zip, exc |-> "none"]
    ELSE LET u == update_file(orig[i].data, RequestsFor(requests, orig[i].name))
         IN  IF u.exc /= "none" THEN [new_zip |-> new_zip, exc |-> u.exc]
             ELSE ZipRebuild(orig, requests, i + 1,
                             Append(new_zip, [name |-> orig[i].name, data |-> u.content]))

\* requests_by_file after the loop has popped every member's name
UnknownFiles(orig, requests) ==
    {requests[k].handler_data : k \in 1 .. Len(requests)}
        \ {Some(orig[i].name) : i \in 1 .. Len(orig)}

\* ZipIOHandler.update with the rename (and the count of the update) made
\* before the requests for unknown files are looked for.
ZipUpdateResult_RenameFirst(orig, requests, self_updates) ==
    LET built == ZipRebuild(orig, requests, 1, <<>>)
    IN  IF built.exc /= "none"
        THEN [archive |-> orig, updates |-> self_updates, temp_left |-> 0, exc |-> built.exc]
        ELSE IF UnknownFiles(orig, requests) /= {}
        THEN [archive |-> built.new_zip, updates |-> self_updates + 1, temp_left |-> 0,
              exc |-> "Exception: requests for unknown files"]
        ELSE [archive |-> built.new_zip, updates |-> self_updates + 1, temp_left |-> 0,
              exc |-> "none"]

\* ZipIOHandler.update: the archive, self._updates and the temporary archives
\* it leaves, and the exception it ends with.  The temporary archive exists
\* from the start of the try block until it is renamed over the archive; the
\* finally block removes it when it still exists.
ZipUpdateResult(orig, requests, self_updates) ==
    LET built == ZipRebuild(orig, requests, 1, <<>>)
        exc == IF built.exc /= "none" THEN built.exc
               ELSE IF UnknownFiles(orig, requests) /= {}
               THEN "Exception: requests for unknown files"
               ELSE "none"
        renamed == exc = "none"
        temps == IF renamed THEN 0 ELSE 1     \* on entry to the finally block
    IN  [archive |-> IF renamed THEN built.new_zip ELSE orig,
         updates |-> IF renamed THEN self_updates + 1 ELSE self_updates,
         temp_left |-> IF temps > 0 THEN temps - 1 ELSE temps,
         exc |-> exc]

----------------------------------------------------------------------------
(* parse_size, etree_find_one, parse_db_entry.  A string is a tuple of     *)
(* one-character strings.  An XML element is a record of its tag, its      *)
(* attributes (each an optional string) and its children by tag.           *)

DIGITS == <<"0", "1", "2", "3", "4", "5", "6", "7", "8", "9">>

IsDigit(ch) == \E d \in 1 .. 10 : DIGITS[d] = ch

DigitValue(ch) == (CHOOSE d \in 1 .. 10 : DIGITS[d] = ch) - 1

\* int(str) of a string of digits
RECURSIVE IntOf(_)
IntOf(str) ==
    IF str = <<>> THEN 0
    ELSE 10 * IntOf(SubSeq(str, 1, Len(str) - 1)) + DigitValue(str[Len(str)])

\* str.isdigit()
AllDigits(str) == str /= <<>> /\ \A i \in 1 .. Len(str) : IsDigit(str[i])

parse_size(str_value) ==
    IF \/ str_value = <<>>
       \/ str_value[Len(str_value)] /= "k"
       \/ ~AllDigits(SubSeq(str_value, 1, Len(str_value) - 1))
    THEN Raise("Exception: can't parse size")
    ELSE Ok(IntOf(SubSeq(str_value, 1, Len(str_value) - 1)) * 1024)

\* sum(parse_size(e.attrib["size"]) for e in elems): the first size that does
\* not parse raises
RECURSIVE SumSizes(_)
SumSizes(elems) ==
    IF elems = <<>> THEN Ok(0)
    ELSE LET first == parse_size(Head(elems).size)
             rest == SumSizes(Tail(elems))
         IN  IF first.exc /= "none" THEN first
             ELSE IF rest.exc /= "none" THEN rest
             ELSE Ok(first.val + rest.val)

\* etree_find_one(elem, path, optional) on the children found at path
etree_find_one(children, optional) ==
    IF Len(children) > 1 THEN Raise("Exception: too many children")
    ELSE IF ~optional /\ Len(children) = 0 THEN Raise("Exception: no children")
    ELSE Ok(IF children /= <<>> THEN Some(children[1]) ELSE None)

FOUR_SCREEN_BOARDS ==
    {"NES-DRROM", "NES-TR1ROM", "TENGEN-800004", "NES-TVROM",
     "IREM-74*161/161/21/138", "HVC-DRROM", "HVC-TVROM"}

PAL_SYSTEMS == {"NES-PAL", "NES-PAL-A", "NES-PAL-B", "Dendy"}

\* str.upper() on the characters a checksum can hold
UpperChar(ch) ==
    CASE ch = "a" -> "A" [] ch = "b" -> "B" [] ch = "c" -> "C"
      [] ch = "d" -> "D" [] ch = "e" -> "E" [] ch = "f" -> "F"
      [] OTHER -> ch

Upper(str) == Tuple([i \in 1 .. Len(str) |-> UpperChar(str[i])])

\* system.lower() == name, for the two names the code tests
LowerEquals(system, name) ==
    \/ name = "playchoice-10" /\ system \in {"PlayChoice-10", "playchoice-10"}
    \/ name = "vs-unisystem" /\ system \in {"VS-Unisystem", "vs-unisystem"}

\* int(attr) of an optional attribute, with its default
IntAttr(attr, default) == IF attr = None THEN default ELSE IntOf(attr[1])

\* bool(pad) of an Element: true when it has child elements
ElementTruth(elem) == elem.children > 0

\* board.find(".//*[@battery='1']") is not None
HasBattery(board) ==
    \E kind \in {"prg", "wram", "chr"} :
        \E i \in 1 .. Len(board[kind]) : board[kind][i].battery = Some(<<"1">>)

\* The mirroring part of parse_db_entry (from "pad = etree_find_one"): the
\* mirroring value, or the exception raised.
Mirroring(board) ==
    LET found == etree_find_one(board.pad, TRUE)
    IN  IF found.exc /= "none" THEN found
        ELSE LET pad == found.val
                 pad_h == IF pad = None THEN 0 ELSE IntAttr(pad[1].h, 0)
                 pad_v == IF pad = None THEN 0 ELSE IntAttr(pad[1].v, 0)
             IN  IF pad /= None /\ pad_h /= 0 /\ pad_v /= 0
                 THEN Raise("Exception: both H and V solder pads set")
                 ELSE IF pad /= None /\ ~(pad_h /= 0 \/ pad_v /= 0)
                 THEN Raise("Exception: neither H nor V set on pad element")
                 ELSE IF board.type /= None /\ board.type[1] \in FOUR_SCREEN_BOARDS
                 THEN IF pad /= None /\ ElementTruth(pad[1]) /\ (pad_h /= 0 \/ pad_v /= 0)
                      THEN Raise("Exception: H and/or V pads set on four screen mirroring game")
                      ELSE Ok(MIRROR_FOUR_SCREEN)
                 ELSE IF pad = None THEN Ok(MIRROR_CONTROLLED)
                 ELSE IF pad_h /= 0 THEN Ok(MIRROR_VERTICAL)
                 ELSE IF pad_v /= 0 THEN Ok(MIRROR_HORIZONTAL)
                 ELSE Raise("Exception: should never get here")

\* parse_db_entry: the pair (crc32, ROMInfo), or the exception raised
parse_db_entry(elem) ==
    LET crc == Upper(elem.crc)
        tv_system == IF elem.system \in PAL_SYSTEMS THEN TV_PAL ELSE TV_NTSC
        found == etree_find_one(elem.board, FALSE)
    IN  IF found.exc /= "none" THEN found
        ELSE LET board == found.val[1]
                 mapper == IntAttr(board.mapper, 0)
                 prg_rom_size == SumSizes(board.prg)
                 prg_ram_size == SumSizes(board.wram)
                 chr_rom_size == SumSizes(board.chr)
                 mirroring == Mirroring(board)
             IN  IF prg_rom_size.exc /= "none" THEN prg_rom_size
                 ELSE IF prg_ram_size.exc /= "none" THEN prg_ram_size
                 ELSE IF chr_rom_size.exc /= "none" THEN chr_rom_size
                 ELSE IF mirroring.exc /= "none" THEN mirroring
                 ELSE Ok(<<crc, ROMInfo(prg_rom_size.val, prg_ram_size.val,
                                        chr_rom_size.val, mapper, mirroring.val,
                                        tv_system, Bool(IF HasBattery(board) THEN 1 ELSE 0),
                                        0,
                                        Bool(IF LowerEquals(elem.system, "playchoice-10") THEN 1 ELSE 0),
                                        Bool(IF LowerEquals(elem.system, "vs-unisystem") THEN 1 ELSE 0))>>)

----------------------------------------------------------------------------
(* load_db                                                                 *)

Warning(kind, crc) == [kind |-> kind, crc |-> crc]

\* dict.pop(key, None): the value popped, as an optional
Popped(dict, key) == IF key \in DOMAIN dict THEN Some(dict[key]) ELSE None

\* the dict after dict.pop(key, None)
Without(dict, key) == [k \in DOMAIN dict \ {key} |-> dict[k]]

\* value == n for an int n, where value is None or a tuple (self_val,
\* other_val) popped from the differences: never equal to an int
EqualsInt(value, n) == FALSE

\* The loop body with the existing record left as it is where the code
\* upgrades its TV system.
merge_NoUpgrade(d, lg, crc, info) ==
    IF crc \notin DOMAIN d THEN [db |-> (crc :> info) @@ d, log |-> lg]
    ELSE LET all_differences == diff(d[crc], info)
             differences == Without(all_differences, "tv_system")
         IN  IF DOMAIN differences /= {}
             THEN [db |-> d, log |-> Append(lg, Warning("multiple different", crc))]
             ELSE [db |-> d, log |-> lg]

\* The loop body with a differing candidate stored in place of the existing
\* record.
merge_LastWins(d, lg, crc, info) ==
    IF crc \notin DOMAIN d THEN [db |-> (crc :> info) @@ d, log |-> lg]
    ELSE LET all_differences == diff(d[crc], info)
             differences == Without(all_differences, "tv_system")
         IN  IF DOMAIN differences /= {}
             THEN [db |-> [d EXCEPT ![crc] = info],
                   log |-> Append(lg, Warning("multiple different", crc))]
             ELSE [db |-> [d EXCEPT ![crc].tv_system = TV_BOTH], log |-> lg]

\* The body of load_db's loop for an element that parsed to (crc32,
\* rom_info): the db and the log it leaves.
merge(d, lg, crc, info) ==
    IF crc \notin DOMAIN d THEN [db |-> (crc :> info) @@ d, log |-> lg]
    ELSE LET existing_rom_info == d[crc]
             all_differences == diff(existing_rom_info, info)
             existing_tv_system == Popped(all_differences, "tv_system")
             differences == Without(all_differences, "tv_system")
         IN  IF DOMAIN differences /= {}
             THEN [db |-> d, log |-> Append(lg, Warning("multiple different", crc))]
             ELSE IF \/ EqualsInt(existing_tv_system, TV_BOTH)
                     \/ EqualsInt(existing_tv_system, info.tv_system)
             THEN [db |-> d, log |-> Append(lg, Warning("duplicate", crc))]
             ELSE [db |-> [d EXCEPT ![crc].tv_system = TV_BOTH], log |-> lg]

\* One turn of load_db's loop with the exception of parse_db_entry caught
\* and the element skipped.
load_element_SkipErrors(d, lg, elem) ==
    IF elem.tag \notin {"cartridge", "arcade"}
    THEN [db |-> d, log |-> lg, exc |-> "none"]
    ELSE LET parsed_entry == parse_db_entry(elem)
         IN  IF parsed_entry.exc /= "none"
             THEN [db |-> d, log |-> Append(lg, Warning("skipped", Upper(elem.crc))),
                   exc |-> "none"]
             ELSE LET merged == merge(d, lg, parsed_entry.val[1], parsed_entry.val[2])
                  IN  [db |-> merged.db, log |-> merged.log, exc |-> "none"]

\* One turn of load_db's loop, on the "end" event of elem: the db and the log
\* it leaves, and the exception that leaves load_db, if any.
load_element(d, lg, elem) ==
    IF elem.tag \notin {"cartridge", "arcade"}
    THEN [db |-> d, log |-> lg, exc |-> "none"]
    ELSE LET parsed_entry == parse_db_entry(elem)
         IN  IF parsed_entry.exc /= "none"
             THEN [db |-> d, log |-> lg, exc |-> parsed_entry.exc]
             ELSE LET merged == merge(d, lg, parsed_entry.val[1], parsed_entry.val[2])
                  IN  [db |-> merged.db, log |-> merged.log, exc |-> "none"]

----------------------------------------------------------------------------
(* cmd_write's visitor, update_rom_header                                  *)

\* What the visitor did with one item: the line it printed and the request
\* it returned (None or an UpdateRequest).
Visit(printed, request) == [printed |-> printed, request |-> request]

\* update_rom_header with args.dry_run ignored when the header differs
update_rom_header_IgnoreDryRun(file_info, d, dry) ==
    LET db_rom_info == Popped(d, file_info.crc32)
    IN  IF file_info.rom_info = None /\ db_rom_info = None
        THEN Visit("no header, not in database, cannot add header", None)
        ELSE IF db_rom_info = None
        THEN Visit("not in database, skipping", None)
        ELSE IF file_info.rom_info = None
        THEN Visit("no header, will add header",
                   IF dry THEN None
                   ELSE Some(UpdateRequest(file_info.name, file_info.handler_data,
                                           REQ_HEADER_INSERT, db_rom_info[1])))
        ELSE IF DOMAIN diff(db_rom_info[1], file_info.rom_info[1]) = {}
        THEN Visit("header matches database", None)
        ELSE Visit("header differs from database, will update header",
                   Some(UpdateRequest(file_info.name, file_info.handler_data,
                                      REQ_HEADER_REPLACE, db_rom_info[1])))

\* update_rom_header(file_info), with the db and args.dry_run of its closure
update_rom_header(file_info, d, dry) ==
    LET db_rom_info == Popped(d, file_info.crc32)     \* db.get(file_info.crc32)
    IN  IF file_info.rom_info = None /\ db_rom_info = None
        THEN Visit("no header, not in database, cannot add header", None)
        ELSE IF db_rom_info = None
        THEN Visit("not in database, skipping", None)
        ELSE IF file_info.rom_info = None
        THEN Visit("no header, will add header",
                   IF dry THEN None
                   ELSE Some(UpdateRequest(file_info.name, file_info.handler_data,
                                           REQ_HEADER_INSERT, db_rom_info[1])))
        ELSE IF DOMAIN diff(db_rom_info[1], file_info.rom_info[1]) = {}
        THEN Visit("header matches database", None)
        ELSE Visit("header differs from database, will update header",
                   IF dry THEN None
                   ELSE Some(UpdateRequest(file_info.name, file_info.handler_data,
                                           REQ_HEADER_REPLACE, db_rom_info[1])))

----------------------------------------------------------------------------
(* Each behaviour exercises one component; the variables of the others     *)
(* keep the values below.                                                  *)

\* no call made yet
Pending == [exc |-> "pending", val |-> <<>>]

\* no enumeration made yet
NoListing == [of |-> <<>>, items |-> <<>>, exc |-> "pending"]

\* no update call made yet
NoApplied == [requests |-> <<>>, before |-> <<>>, exc |-> "pending"]

IdleCodec == rom_info = None /\ header = <<>> /\ made = Pending /\ parsed = Pending

IdleFile == file = <<>> /\ listing = NoListing /\ applied = NoApplied

\* no generator created yet
NoIter ==
    [status |-> "none", exc |-> "none", expected_updates |-> 0, snapshot |-> <<>>,
     pos |-> 0, items |-> <<>>, stale_at |-> -1]

\* no update call made on the zip handler yet
NoZipApplied ==
    [requests |-> <<>>, before |-> <<>>, updates_before |-> 0, exc |-> "pending"]

IdleZip ==
    /\ archive = <<>> /\ updates = 0 /\ temp_left = 0
    /\ zapplied = NoZipApplied /\ gen = NoIter

\* an empty dict
EmptyDict == <<>>

IdleDb == corpus = <<>> /\ pos = 1 /\ db = EmptyDict /\ log = <<>> /\ status = "idle"

IdleWrite ==
    /\ dry_run = FALSE /\ visit_requests = <<>> /\ visited = <<>>
    /\ visit_state = "idle" /\ pass = 0

IdleDiff == diff_self = None /\ diff_other = None /\ diff_result = Pending

----------------------------------------------------------------------------
(* The codec exercised on its own: make_ines_header on every record of     *)
(* Records, parse_header on what it made and on every input of             *)
(* HeaderInputs.                                                           *)

UnitCounts == (0 .. MaxUnits) \cup {255}

Mirrorings ==
    {MIRROR_HORIZONTAL, MIRROR_VERTICAL, MIRROR_FOUR_SCREEN,
     MIRROR_FOUR_SCREEN_ODD, MIRROR_CONTROLLED}

TvSystems == {TV_NTSC, TV_PAL, TV_BOTH}

Mappers == {0, 165, 255}

PrgRamSizes == {0, 2048, 8192, 8193, 255 * 8192}

\* Records every field of which make_ines_header can represent.
RepresentableRecords ==
    {ROMInfo(p * 16384, w, c * 8192, m, mi, tv, nv, tr, pc10, vs) :
        p \in UnitCounts, w \in PrgRamSizes, c \in UnitCounts, m \in Mappers,
        mi \in Mirrorings, tv \in TvSystems, nv \in 0 .. 1, tr \in 0 .. 1,
        pc10 \in 0 .. 1, vs \in 0 .. 1}

BaseRecord == ROMInfo(16384, 0, 8192, 0, MIRROR_HORIZONTAL, TV_NTSC, 0, 0, 0, 0)

\* Records with one or more fields out of range or misaligned.
UnrepresentableRecords ==
    {[BaseRecord EXCEPT !.prg_rom_size = p, !.chr_rom_size = c, !.mapper = m,
                        !.prg_ram_size = w] :
        p \in {16384, 8192, 256 * 16384}, c \in {8192, 1024, 256 * 8192},
        m \in {0, 256}, w \in {0, 255 * 8192 + 1}} \ RepresentableRecords

Records == RepresentableRecords \cup UnrepresentableRecords

Zeros(n) == Tuple([i \in 1 .. n |-> 0])

HeaderInputs ==
    {m \o <<b4, b5, b6, b7, b8, b9>> \o Zeros(6) :
        m \in {MAGIC_NES, MAGIC_UNIF, <<78, 69, 83, 0>>, Zeros(4)},
        b4 \in {0, 2}, b5 \in {0, 1},
        b6 \in {0, 1, 2, 4, 8, 9, 165, 251},
        b7 \in {0, 1, 2, 4, 8, 12, 24, 243},
        b8 \in {0, 3}, b9 \in {0, 1, 2}}

CodecInit ==
    /\ IdleFile /\ IdleZip /\ IdleDb /\ IdleWrite /\ IdleDiff /\ budget = 0
    /\ made = Pending
    /\ parsed = Pending
    /\ \/ rom_info \in {Some(r) : r \in Records} /\ header = <<>>
       \/ rom_info = None /\ header \in HeaderInputs

\* header_bytes = make_ines_header(rom_info)
MakeHeader ==
    /\ rom_info /= None
    /\ made = Pending
    /\ made' = make_ines_header(rom_info[1])
    /\ header' = made'.val
    /\ UNCHANGED <<rom_info, parsed, fileVars, zipVars, dbVars, writeVars, diffVars>>

\* parse_header(header_bytes), on made bytes or on input bytes
ParseHeader ==
    /\ parsed = Pending
    /\ \/ rom_info = None
       \/ made.exc = "none"
    /\ parsed' = parse_header(header)
    /\ UNCHANGED <<rom_info, header, made, fileVars, zipVars, dbVars, writeVars, diffVars>>

CodecNext == MakeHeader \/ ParseHeader

SpecCodec == CodecInit /\ [][CodecNext]_vars

----------------------------------------------------------------------------
(* A bare file under its FileIOHandler: enumerations and update calls.     *)

PayloadBytes == {0, 165}

Payloads == UNION {[1 .. n -> PayloadBytes] : n \in 0 .. MaxPayload}

\* First 16 bytes of an entity: two iNES headers, one with a trainer, one of
\* the extended generation, a UNIF file, and bytes without any magic.
Prefixes ==
    {MAGIC_NES \o <<2, 1, 1, 0, 0, 0>> \o Zeros(6),
     MAGIC_NES \o <<1, 0, 82, 160, 1, 1>> \o Zeros(6),
     MAGIC_NES \o <<2, 1, 4, 0, 0, 0>> \o Zeros(6),
     MAGIC_NES \o <<2, 1, 0, 8, 0, 0>> \o Zeros(6),
     MAGIC_UNIF \o Zeros(12),
     <<78, 69, 83, 0>> \o Zeros(12)}

\* Files of 16 bytes or more, and files shorter than a header.
FileContents == {p \o d : p \in Prefixes, d \in Payloads} \cup Payloads

RecordA == ROMInfo(32768, 8192, 8192, 165, MIRROR_VERTICAL, TV_PAL, 1, 0, 0, 1)

RecordB == ROMInfo(16384, 2048, 0, 4, MIRROR_CONTROLLED, TV_BOTH, 0, 0, 1, 0)

RecordBad == ROMInfo(40 * 1024, 0, 8192, 0, MIRROR_HORIZONTAL, TV_NTSC, 0, 0, 0, 0)

FileRequests ==
    {UpdateRequest(FilePath, None, t, r) :
        t \in {REQ_HEADER_INSERT, REQ_HEADER_REPLACE}, r \in {RecordA, RecordBad}}
    \cup {UpdateRequest(FilePath, None, 3, RecordA),
          UpdateRequest(OtherPath, None, REQ_HEADER_INSERT, RecordA)}

SeqsUpTo(S, n) == UNION {[1 .. k -> S] : k \in 0 .. n}

FileInit ==
    /\ IdleCodec /\ IdleZip /\ IdleDb /\ IdleWrite /\ IdleDiff
    /\ file \in FileContents
    /\ listing = NoListing
    /\ applied = NoApplied
    /\ budget = MaxRequests

\* for file_info in io_handler: ... over a FileIOHandler
FileEnumerate ==
    /\ listing.exc = "pending" \/ listing.of /= file
    /\ LET res == FileIter(file)
       IN  listing' = [of |-> file, items |-> res.items, exc |-> res.exc]
    /\ UNCHANGED <<file, applied, budget, codecVars, zipVars, dbVars, writeVars, diffVars>>

\* io_handler.update(requests) on a FileIOHandler
FileUpdate ==
    /\ budget > 0
    /\ \E requests \in SeqsUpTo(FileRequests, budget) :
        LET res == FileUpdateResult(file, requests)
        IN  /\ file' = res.content
            /\ applied' = [requests |-> requests, before |-> file, exc |-> res.exc]
            /\ budget' = budget - Len(requests)
    /\ UNCHANGED <<listing, codecVars, zipVars, dbVars, writeVars, diffVars>>

FileNext == FileEnumerate \/ FileUpdate

SpecFile == FileInit /\ [][FileNext]_vars

----------------------------------------------------------------------------
(* A zip archive under its ZipIOHandler: one enumeration at a time, and    *)
(* update calls between its steps.                                         *)

MemberNames == <<"a.nes", "b.nes", "c.nes", "d.nes">>

UnknownName == "zz.nes"

\* What a member holds: a headered ROM, a bare ROM, a UNIF file.
MemberData ==
    {MAGIC_NES \o <<2, 1, 1, 0, 0, 0>> \o Zeros(6) \o <<165>>,
     <<78, 69, 83, 0>> \o Zeros(12) \o <<165, 0>>,
     MAGIC_UNIF \o Zeros(12)}

Archives ==
    UNION {{[i \in 1 .. n |-> [name |-> MemberNames[i], data |-> d[i]]] :
                d \in [1 .. n -> MemberData]} : n \in 0 .. MaxMembers}

ZipRequests ==
    {UpdateRequest(FullName(MemberNames[i]), Some(MemberNames[i]), t, r) :
        i \in 1 .. MaxMembers, t \in {REQ_HEADER_INSERT},
        r \in {RecordA, RecordBad}}
    \cup {UpdateRequest(FullName(MemberNames[1]), Some(MemberNames[1]),
                        REQ_HEADER_REPLACE, RecordA),
          UpdateRequest(FullName(UnknownName), Some(UnknownName),
                        REQ_HEADER_INSERT, RecordA)}

ZipInit ==
    /\ IdleCodec /\ IdleFile /\ IdleDb /\ IdleWrite /\ IdleDiff
    /\ archive \in Archives
    /\ updates = 0
    /\ temp_left = 0
    /\ zapplied = NoZipApplied
    /\ gen = NoIter
    /\ budget = MaxRequests

\* iter(handler) and the first next(): expected_updates = self._updates, the
\* archive is opened, and the loop runs to its first yield
ZipIterStart ==
    /\ gen.status \in {"none", "done", "failed"}
    /\ gen' = ZipIterFrom([NoIter EXCEPT !.expected_updates = updates,
                                        !.snapshot = archive], 1, updates)
    /\ UNCHANGED <<archive, updates, temp_left, zapplied>>
    /\ UNCHANGED <<codecVars, fileVars, dbVars, writeVars, diffVars>>

\* next() on the suspended generator
ZipIterNext ==
    /\ gen.status = "suspended"
    /\ gen' = ZipIterFrom(gen, gen.pos + 1, updates)
    /\ UNCHANGED <<archive, updates, temp_left, zapplied>>
    /\ UNCHANGED <<codecVars, fileVars, dbVars, writeVars, diffVars>>

\* handler.update(requests), between two steps of the enumeration
ZipUpdate ==
    /\ budget > 0
    /\ \E requests \in SeqsUpTo(ZipRequests, budget) \ {<<>>} :
        LET res == ZipUpdateResult(archive, requests, updates)
        IN  /\ archive' = res.archive
            /\ updates' = res.updates
            /\ temp_left' = res.temp_left
            /\ zapplied' = [requests |-> requests, before |-> archive,
                            updates_before |-> updates, exc |-> res.exc]
            /\ budget' = budget - Len(requests)
            /\ gen' = IF gen.status = "suspended" /\ res.exc = "none" /\ gen.stale_at < 0
                     THEN [gen EXCEPT !.stale_at = Len(gen.items)]
                     ELSE gen
    /\ UNCHANGED <<codecVars, file, listing, applied, dbVars, writeVars, diffVars>>

ZipNext == ZipIterStart \/ ZipIterNext \/ ZipUpdate

SpecZip == ZipInit /\ [][ZipNext]_vars

----------------------------------------------------------------------------
(* load_db on a corpus of cartridge, arcade and game elements.             *)

Size(str) == [size |-> str, battery |-> None]

Pad(h, v, children) == [h |-> h, v |-> v, children |-> children]

Board(type, mapper, wram, pad) ==
    [type |-> Some(type), mapper |-> mapper, prg |-> <<Size(<<"3", "2", "k">>)>>,
     chr |-> <<Size(<<"8", "k">>)>>, wram |-> wram, pad |-> pad]

Element(tag, crc, system, board) ==
    [tag |-> tag, crc |-> crc, system |-> system, board |-> <<board>>]

CRC_A == <<"0", "0", "0", "0", "a", "b", "c", "d">>

CRC_B == <<"1", "2", "3", "4", "5", "6", "7", "8">>

One == Some(<<"1">>)

\* The elements a corpus is made of: for one checksum, the two TV systems,
\* every pad declaration on an ordinary and on a four-screen board, another
\* mapper, another system with battery-backed RAM; a second checksum; and a
\* game element.
Elements ==
    {Element("cartridge", CRC_A, "NES-NTSC", Board("NES-NROM-256", None, <<>>, <<>>)),
     Element("cartridge", CRC_A, "NES-PAL", Board("NES-NROM-256", None, <<>>, <<>>)),
     Element("cartridge", CRC_A, "NES-NTSC",
             Board("NES-NROM-256", None, <<>>, <<Pad(One, None, 0)>>)),
     Element("cartridge", CRC_A, "NES-NTSC",
             Board("NES-NROM-256", None, <<>>, <<Pad(None, One, 0)>>)),
     Element("cartridge", CRC_A, "NES-NTSC", Board("NES-DRROM", None, <<>>, <<>>)),
     Element("cartridge", CRC_A, "NES-NTSC",
             Board("NES-DRROM", None, <<>>, <<Pad(One, None, 0)>>)),
     Element("cartridge", CRC_A, "NES-NTSC",
             Board("NES-DRROM", None, <<>>, <<Pad(One, None, 1)>>)),
     Element("cartridge", CRC_A, "NES-NTSC",
             Board("NES-NROM-256", None, <<>>, <<Pad(One, One, 0)>>)),
     Element("cartridge", CRC_A, "NES-NTSC",
             Board("NES-NROM-256", None, <<>>, <<Pad(None, None, 0)>>)),
     Element("cartridge", CRC_A, "NES-NTSC", Board("NES-NROM-256", Some(<<"4">>), <<>>, <<>>)),
     Element("arcade", CRC_A, "VS-Unisystem",
             Board("NES-NROM-256", None,
                   <<[size |-> <<"8", "k">>, battery |-> One]>>, <<>>)),
     Element("cartridge", CRC_B, "NES-NTSC", Board("NES-NROM-256", None, <<>>, <<>>)),
     [tag |-> "game", crc |-> <<>>, system |-> "", board |-> <<>>]}

DbInit ==
    /\ IdleCodec /\ IdleFile /\ IdleZip /\ IdleWrite /\ IdleDiff /\ budget = 0
    /\ corpus \in SeqsUpTo(Elements, MaxCorpus)
    /\ pos = 1
    /\ db = EmptyDict
    /\ log = <<>>
    /\ status = "loading"

\* one turn of "for event, elem in xml_iter"
LoadElement ==
    /\ status = "loading"
    /\ pos <= Len(corpus)
    /\ LET res == load_element(db, log, corpus[pos])
       IN  /\ db' = res.db
           /\ log' = res.log
           /\ status' = IF res.exc = "none" THEN "loading" ELSE "raised"
           /\ pos' = IF res.exc = "none" THEN pos + 1 ELSE pos
    /\ UNCHANGED <<corpus, codecVars, fileVars, zipVars, writeVars, diffVars>>

\* return db
LoadReturn ==
    /\ status = "loading"
    /\ pos > Len(corpus)
    /\ status' = "done"
    /\ UNCHANGED <<corpus, pos, db, log, codecVars, fileVars, zipVars, writeVars, diffVars>>

DbNext == LoadElement \/ LoadReturn

SpecDb == DbInit /\ [][DbNext]_vars

----------------------------------------------------------------------------
(* cmd_write on one path, a zip archive: visit_roms enumerates the         *)
(* ZipIOHandler, hands each item to update_rom_header, and calls update    *)
(* with the requests it collected.  The db is the one load_db returned.    *)

HeaderedRom == MAGIC_NES \o <<2, 1, 1, 0, 0, 0>> \o Zeros(6) \o <<165>>

BareRom == <<78, 69, 83, 0>> \o Zeros(12) \o <<165, 0>>

WriteArchives ==
    UNION {{[i \in 1 .. n |-> [name |-> MemberNames[i], data |-> d[i]]] :
                d \in [1 .. n -> {HeaderedRom, BareRom}]} : n \in 0 .. MaxMembers}

\* the checksums _make_file_info gives the two ROMs
WriteChecksums == {make_file_info("", d, None).val.crc32 : d \in {HeaderedRom, BareRom}}

\* the record HeaderedRom's header decodes to
RecordOfHeader == parse_header(SubSeq(HeaderedRom, 1, MIN_HEADER_READ_SIZE)).val[1]

\* a record that differs from it in fields the diff does not ignore
RecordOther == ROMInfo(32768, 8192, 8192, 4, MIRROR_VERTICAL, TV_PAL, 1, 0, 0, 0)

\* Databases with or without a record for each checksum: the record of the
\* header, another one, or one make_ines_header cannot encode.
Databases ==
    UNION {[keys -> {RecordOfHeader, RecordOther, RecordBad}] : keys \in SUBSET WriteChecksums}

WriteInit ==
    /\ IdleCodec /\ IdleFile /\ budget = 0
    /\ archive \in WriteArchives
    /\ updates = 0
    /\ temp_left = 0
    /\ zapplied = NoZipApplied
    /\ gen = NoIter
    /\ corpus = <<>> /\ pos = 1 /\ log = <<>>
    /\ status = "done"
    /\ db \in Databases
    /\ dry_run \in BOOLEAN
    /\ visit_requests = <<>>
    /\ visited = <<>>
    /\ visit_state = "start"
    /\ pass = 0
    /\ IdleDiff

\* how visit_roms goes on after a next() on the generator
AfterNext(g) == IF g.status = "failed" THEN "raised" ELSE "iterating"

\* io_handler = io_handler_cls(rom_path); requests = []; the for statement's
\* first next()
VisitStart ==
    /\ visit_state = "start"
    /\ gen' = ZipIterFrom([NoIter EXCEPT !.expected_updates = updates,
                                        !.snapshot = archive], 1, updates)
    /\ visit_requests' = <<>>
    /\ visit_state' = AfterNext(gen')
    /\ UNCHANGED <<archive, updates, temp_left, zapplied, dry_run, visited, pass>>
    /\ UNCHANGED <<codecVars, fileVars, dbVars, diffVars>>

\* one turn of "for file_info in io_handler": the visitor on the item
\* yielded, and the next()
VisitItem ==
    /\ visit_state = "iterating"
    /\ gen.status = "suspended"
    /\ LET file_info == gen.items[Len(gen.items)]
           outcome == update_rom_header(file_info, db, dry_run)
       IN  /\ visited' = Append(visited, [file_info |-> file_info,
                                          printed |-> outcome.printed,
                                          request |-> outcome.request])
           /\ visit_requests' = IF outcome.request /= None
                                THEN Append(visit_requests, outcome.request[1])
                                ELSE visit_requests
    /\ gen' = ZipIterFrom(gen, gen.pos + 1, updates)
    /\ visit_state' = AfterNext(gen')
    /\ UNCHANGED <<archive, updates, temp_left, zapplied, dry_run, pass>>
    /\ UNCHANGED <<codecVars, fileVars, dbVars, diffVars>>

\* "if requests: ... update(requests)" after the loop
VisitUpdate ==
    /\ visit_state = "iterating"
    /\ gen.status = "done"
    /\ IF visit_requests /= <<>>
       THEN LET res == ZipUpdateResult(archive, visit_requests, updates)
            IN  /\ archive' = res.archive
                /\ updates' = res.updates
                /\ temp_left' = res.temp_left
                /\ zapplied' = [requests |-> visit_requests, before |-> archive,
                                updates_before |-> updates, exc |-> res.exc]
                /\ visit_state' = IF res.exc = "none" THEN "finished" ELSE "raised"
       ELSE /\ visit_state' = "finished"
            /\ UNCHANGED <<archive, updates, temp_left, zapplied>>
    /\ UNCHANGED <<gen, dry_run, visit_requests, visited, pass>>
    /\ UNCHANGED <<codecVars, fileVars, dbVars, diffVars>>

WriteNext == VisitStart \/ VisitItem \/ VisitUpdate

SpecWrite == WriteInit /\ [][WriteNext]_vars

----------------------------------------------------------------------------
(* cmd_write run again and again on one path, a bare file under its        *)
(* FileIOHandler.  The enumeration yields at most one item and the file is *)
(* closed before it is yielded, so a run is one step.                      *)

\* sixteen bytes that carry no magic, and a header
BarePrefix == <<78, 69, 83, 0>> \o Zeros(12)

HeaderPrefix == MAGIC_NES \o <<2, 1, 1, 0, 0, 0>> \o Zeros(6)

\* Files without a header (some shorter than a header) and with one.
PassFiles ==
    {BarePrefix \o d : d \in Payloads} \cup {HeaderPrefix \o d : d \in Payloads}
        \cup {d \in Payloads : Len(d) = MaxPayload}

\* the checksum a run gives the file, where it gives one
ChecksumsOf(content) ==
    LET r == make_file_info(FilePath, content, None)
    IN  IF r.exc = "none" THEN {r.val.crc32} ELSE {}

PassInit ==
    /\ IdleCodec /\ IdleZip /\ IdleDiff /\ budget = 0
    /\ file \in PassFiles
    /\ listing = NoListing
    /\ applied = NoApplied
    /\ corpus = <<>> /\ pos = 1 /\ log = <<>>
    /\ status = "done"
    /\ \/ db = EmptyDict
       \/ \E crc \in ChecksumsOf(file), r \in {RecordOfHeader, RecordOther, RecordB, RecordBad} :
             db = (crc :> r)
    /\ dry_run \in BOOLEAN
    /\ visit_requests = <<>>
    /\ visited = <<>>
    /\ visit_state = "start"
    /\ pass = 0

\* the visitor on each item of the enumeration, in order
RECURSIVE VisitAll(_, _, _, _)
VisitAll(items, d, dry, n) ==
    IF items = <<>> THEN <<>>
    ELSE LET outcome == update_rom_header(Head(items), d, dry)
         IN  <<[file_info |-> Head(items), printed |-> outcome.printed,
                request |-> outcome.request, pass |-> n]>>
             \o VisitAll(Tail(items), d, dry, n)

\* the requests visit_roms appended
RECURSIVE Collected(_)
Collected(visits) ==
    IF visits = <<>> THEN <<>>
    ELSE Head(visits).request \o Collected(Tail(visits))

\* cmd_write(args): visit_roms over the FileIOHandler of the path, from the
\* enumeration to the update
WritePass ==
    /\ visit_state \in {"start", "finished", "raised"}
    /\ pass < MaxPasses
    /\ LET res == FileIter(file)
           visits == VisitAll(res.items, db, dry_run, pass + 1)
           requests == Collected(visits)
           called == res.exc = "none" /\ requests /= <<>>
           upd == FileUpdateResult(file, requests)
       IN  /\ listing' = [of |-> file, items |-> res.items, exc |-> res.exc]
           /\ visited' = visited \o visits
           /\ visit_requests' = requests
           /\ file' = IF called THEN upd.content ELSE file
           /\ applied' = IF called
                         THEN [requests |-> requests, before |-> file, exc |-> upd.exc]
                         ELSE applied
           /\ visit_state' = IF res.exc /= "none" \/ (called /\ upd.exc /= "none")
                             THEN "raised" ELSE "finished"
    /\ pass' = pass + 1
    /\ UNCHANGED <<budget, dry_run, codecVars, zipVars, dbVars, diffVars>>

PassNext == WritePass

SpecPasses == PassInit /\ [][PassNext]_vars

----------------------------------------------------------------------------
(* ROMInfo.diff on pairs of records: every pair of mirroring values and of *)
(* TV systems, with the other fields equal or one of them different.       *)

DiffBase == ROMInfo(32768, 8192, 8192, 4, MIRROR_HORIZONTAL, TV_NTSC, 0, 0, 0, 0)

\* DiffBase with another value in the field named (or in none)
Changed(field) ==
    CASE field = "prg_rom_size" -> [DiffBase EXCEPT !.prg_rom_size = 16384]
      [] field = "prg_ram_size" -> [DiffBase EXCEPT !.prg_ram_size = 0]
      [] field = "chr_rom_size" -> [DiffBase EXCEPT !.chr_rom_size = 0]
      [] field = "mapper" -> [DiffBase EXCEPT !.mapper = 0]
      [] field = "has_nvram" -> [DiffBase EXCEPT !.has_nvram = 1]
      [] field = "has_trainer" -> [DiffBase EXCEPT !.has_trainer = 1]
      [] field = "is_playchoice_10" -> [DiffBase EXCEPT !.is_playchoice_10 = 1]
      [] field = "is_vs_unisystem" -> [DiffBase EXCEPT !.is_vs_unisystem = 1]
      [] OTHER -> DiffBase

DiffInit ==
    /\ IdleCodec /\ IdleFile /\ IdleZip /\ IdleDb /\ IdleWrite /\ budget = 0
    /\ \E mi \in Mirrorings, tv \in TvSystems :
          diff_self = Some([DiffBase EXCEPT !.mirroring = mi, !.tv_system = tv])
    /\ \E mi \in Mirrorings, tv \in TvSystems,
          field \in (FIELDS \ {"mirroring", "tv_system"}) \cup {"none"} :
          diff_other = Some([Changed(field) EXCEPT !.mirroring = mi, !.tv_system = tv])
    /\ diff_result = Pending

\* differences = self.diff(other)
Diff ==
    /\ diff_result = Pending
    /\ diff_result' = Ok(diff(diff_self[1], diff_other[1]))
    /\ UNCHANGED <<diff_self, diff_other, codecVars, fileVars, zipVars, dbVars, writeVars>>

\* differences = other.diff(self)
DiffReversed ==
    /\ diff_result = Pending
    /\ diff_result' = Ok(diff(diff_other[1], diff_self[1]))
    /\ diff_self' = diff_other
    /\ diff_other' = diff_self
    /\ UNCHANGED <<codecVars, fileVars, zipVars, dbVars, writeVars>>

DiffNext == Diff \/ DiffReversed

SpecDiff == DiffInit /\ [][DiffNext]_vars

----------------------------------------------------------------------------
(* Properties of the codec.                                                *)

\* The representable ranges of section 3 and 4.2: sizes are whole unit counts
\* in 0..255 (program-RAM any size up to 255 units), mapper in 0..255.
Representable(r) ==
    /\ r.prg_rom_size % 16384 = 0 /\ r.prg_rom_size \div 16384 \in 0 .. 255
    /\ r.chr_rom_size % 8192 = 0 /\ r.chr_rom_size \div 8192 \in 0 .. 255
    /\ r.mapper \in 0 .. 255
    /\ r.prg_ram_size \in 0 .. 255 * 8192

\* The six computed bytes of the wire layout of section 6, by arithmetic.
SixBytes(r) ==
    << r.prg_rom_size \div 16384,
       r.chr_rom_size \div 8192,
       (r.mapper % 16) * 16 + (r.mirroring % 16) + 4 * r.has_trainer + 2 * r.has_nvram,
       (r.mapper \div 16) * 16 + 2 * r.is_playchoice_10 + r.is_vs_unisystem,
       CHOOSE n \in 0 .. 255 : n * 8192 >= r.prg_ram_size /\ (n - 1) * 8192 < r.prg_ram_size,
       r.tv_system % 2 >>

\* C1 (as claimed): for every representable record make_ines_header returns
\* exactly 16 bytes: the magic, the six computed bytes, and zeros at 10..15.
C1_HeaderIsSixteenBytes ==
    (rom_info /= None /\ made /= Pending /\ Representable(rom_info[1])) =>
        /\ made.exc = "none"
        /\ Len(made.val) = 16
        /\ SubSeq(made.val, 1, 4) = <<78, 69, 83, 26>>
        /\ SubSeq(made.val, 5, 10) = SixBytes(rom_info[1])
        /\ \A i \in 11 .. 16 : made.val[i] = 0

\* What the round trip is claimed to return: the record itself, with the
\* program-RAM size rounded up to a multiple of 8192 and TV "both" as NTSC.
RoundTripExpected(r) ==
    [r EXCEPT !.prg_ram_size = ((r.prg_ram_size + 8191) \div 8192) * 8192,
              !.tv_system = IF r.tv_system = TV_BOTH THEN TV_NTSC ELSE r.tv_system]

\* C3 (as claimed): for every representable record, parse(write(record))
\* returns the record, equal in every field except the two lossy ones.
C3_RoundTrip ==
    (rom_info /= None /\ made /= Pending /\ parsed /= Pending
     /\ Representable(rom_info[1])) =>
        /\ parsed.exc = "none"
        /\ parsed.val = Some(RoundTripExpected(rom_info[1]))

\* The decode of section 4.2, by arithmetic on the bytes.
Decoded(b) ==
    [prg_rom_size |-> b[5] * 16384,
     chr_rom_size |-> b[6] * 8192,
     mapper |-> (b[8] \div 16) * 16 + (b[7] \div 16),
     mirroring |-> (b[7] % 2) + 8 * ((b[7] \div 8) % 2),
     has_trainer |-> (b[7] \div 4) % 2,
     has_nvram |-> (b[7] \div 2) % 2,
     is_playchoice_10 |-> (b[8] \div 2) % 2,
     is_vs_unisystem |-> b[8] % 2,
     prg_ram_size |-> b[9] * 8192,
     tv_system |-> b[10] % 2]

IsUnif(b) == SubSeq(b, 1, 4) = <<85, 78, 73, 70>>

IsNes(b) == SubSeq(b, 1, 4) = <<78, 69, 83, 26>>

ExtendedGeneration(b) == (b[8] \div 4) % 4 = 2

TrainerBit(b) == (b[7] \div 4) % 2 = 1

\* C9: on any input of at least 16 bytes parse_header has exactly three
\* outcomes: skip (no record) for the UNIF magic and for the iNES magic with
\* the extended-generation selector or the trainer bit; absent for any other
\* input without the iNES magic; otherwise a fully decoded record, whose
\* trainer field is false.
C9_ParseOutcomes ==
    (parsed /= Pending /\ Len(header) >= 16) =>
        IF IsUnif(header) \/ (IsNes(header) /\ (ExtendedGeneration(header) \/ TrainerBit(header)))
        THEN parsed.exc = "SkipROM" /\ parsed.val = None
        ELSE IF ~IsNes(header)
        THEN parsed.exc = "none" /\ parsed.val = None
        ELSE /\ parsed.exc = "none"
             /\ parsed.val = Some(Decoded(header))
             /\ parsed.val[1].has_trainer = 0

\* C9 witness: an iNES header with the trainer bit set (and the first
\* generation selected) has been parsed and was skipped.
C9_Witness ==
    /\ parsed.exc = "SkipROM"
    /\ Len(header) >= 16 /\ IsNes(header)
    /\ TrainerBit(header) /\ ~ExtendedGeneration(header)

----------------------------------------------------------------------------
(* Properties of the bare file handler and of the checksum pass.           *)

\* C2 (as claimed): a single Insert-Header request with a representable
\* record on a file of n bytes leaves n + 16 bytes: write(record) in the
\* first 16, then the original bytes.
C2_InsertGrowsBySixteen ==
    (/\ applied.exc /= "pending"
     /\ Len(applied.requests) = 1
     /\ applied.requests[1].name = FilePath
     /\ applied.requests[1].type = REQ_HEADER_INSERT
     /\ Representable(applied.requests[1].rom_info)) =>
        /\ applied.exc = "none"
        /\ Len(file) = Len(applied.before) + 16
        /\ SubSeq(file, 1, 16) = make_ines_header(applied.requests[1].rom_info).val
        /\ SubSeq(file, 17, Len(file)) = applied.before

\* The CRC-32 of data computed bit by bit, without the table and in one run.
RECURSIVE BitwiseCrc(_, _)
BitwiseCrc(c, data) ==
    IF data = <<>> THEN c
    ELSE LET x == <<BitXor(c[1], Head(data)), c[2], c[3], c[4]>>
             next == CrcShift(CrcShift(CrcShift(CrcShift(CrcShift(CrcShift(CrcShift(CrcShift(x))))))))
         IN  IF Len(next) = 4 THEN BitwiseCrc(next, Tail(data)) ELSE next

ChecksumOf(data) == FormatCrc(Not32(BitwiseCrc(<<255, 255, 255, 255>>, data)))

\* C10: when parse returns a record the checksum of the yielded item is
\* that of the bytes after the first 16; when it returns absent, that of all
\* the bytes, in order, however the reads split them; when it signals skip no
\* item is yielded.
C10_ChecksumCoverage ==
    (listing.exc /= "pending" /\ Len(listing.of) >= 16) =>
        LET p == parse_header(SubSeq(listing.of, 1, 16))
        IN  IF p.exc = "SkipROM" THEN listing.items = <<>> /\ listing.exc = "none"
            ELSE /\ listing.exc = "none"
                 /\ Len(listing.items) = 1
                 /\ listing.items[1].rom_info = p.val
                 /\ listing.items[1].crc32 =
                        IF p.val /= None
                        THEN ChecksumOf(SubSeq(listing.of, 17, Len(listing.of)))
                        ELSE ChecksumOf(listing.of)

\* C10 witness: a file with a header and a payload of more than one read has
\* been enumerated and yielded its item.
C10_Witness ==
    /\ listing.exc = "none"
    /\ Len(listing.items) = 1
    /\ listing.items[1].rom_info /= None
    /\ Len(listing.of) > 16 + ReadSize

----------------------------------------------------------------------------
(* Properties of the zip handler.                                          *)

\* C6: an update call that fails (a header that cannot be encoded, a request
\* for a member the rebuild did not find) leaves the archive with the same
\* members and bytes, leaves no temporary archive, and leaves self._updates
\* unchanged.
C6_FailedUpdateLeavesArchive ==
    (zapplied.exc \notin {"pending", "none"}) =>
        /\ archive = zapplied.before
        /\ temp_left = 0
        /\ updates = zapplied.updates_before

\* C6 witness: an update failed encoding the header for the second member,
\* after the first member was written to the temporary archive.
C6_Witness ==
    /\ zapplied.exc = "Exception: PRG ROM size"
    /\ Len(zapplied.before) >= 2
    /\ zapplied.requests[1].handler_data = Some(MemberNames[2])

ConcurrentModification == "Exception: iterator invalidated by concurrent modification"

\* C7 (as claimed): once an update has succeeded while the enumeration was
\* suspended, resuming the enumeration fails with the concurrent-modification
\* error: it yields no further item and does not complete normally; and only
\* a successful update makes it fail so.
C7_ResumeAlwaysFails ==
    /\ (gen.stale_at >= 0) =>
            /\ Len(gen.items) = gen.stale_at
            /\ gen.status \in {"suspended", "failed"}
            /\ gen.status = "failed" => gen.exc = ConcurrentModification
    /\ (gen.status = "failed" /\ gen.exc = ConcurrentModification) => gen.stale_at >= 0

\* C7 (amended): once an update has succeeded while the enumeration was
\* suspended, resuming the enumeration yields no further item; it fails with
\* the concurrent-modification error when a member of the list remains after
\* the one yielded last, and completes normally when the one yielded last was
\* the last of the list; and only a successful update makes it fail so.
C7_ResumeFailsUnlessAtEnd ==
    /\ (gen.stale_at >= 0) =>
            /\ Len(gen.items) = gen.stale_at
            /\ \/ gen.status = "suspended"
               \/ /\ gen.status = "failed"
                  /\ gen.exc = ConcurrentModification
                  /\ gen.pos < Len(gen.snapshot)
               \/ /\ gen.status = "done"
                  /\ gen.pos = Len(gen.snapshot)
    /\ (gen.status = "failed" /\ gen.exc = ConcurrentModification) => gen.stale_at >= 0

\* C7 witness: the enumeration was resumed after a successful update and
\* failed.
C7_Witness ==
    /\ gen.stale_at >= 0
    /\ gen.status = "failed"
    /\ zapplied.exc = "none"

----------------------------------------------------------------------------
(* Properties of load_db.                                                  *)

IsRecord(elem) == elem.tag \in {"cartridge", "arcade"}

\* C4 (as claimed): a corpus holding the same entry twice loads to the
\* database that the entry loaded once gives, with a duplicate warning logged.
C4_MergeIdempotent ==
    (/\ status = "done"
     /\ Len(corpus) = 2
     /\ corpus[1] = corpus[2]
     /\ IsRecord(corpus[1])) =>
        /\ db = load_element(EmptyDict, <<>>, corpus[1]).db
        /\ \E i \in 1 .. Len(log) : log[i].kind = "duplicate"

PadSet(attr) == attr /= None /\ attr /= Some(<<"0">>)

\* The data errors of a board declaration that parse_db_entry raises: both
\* pads set, a pad element with neither set, and a pad preference on a
\* four-screen board when the pad element has child elements.
DataError(elem) ==
    /\ IsRecord(elem)
    /\ elem.board[1].pad /= <<>>
    /\ LET pad == elem.board[1].pad[1]
       IN  \/ PadSet(pad.h) /\ PadSet(pad.v)
           \/ ~PadSet(pad.h) /\ ~PadSet(pad.v)
           \/ /\ elem.board[1].type[1] \in FOUR_SCREEN_BOARDS
              /\ pad.children > 0

LoadEnded == status \in {"done", "raised"}

\* C5 (as claimed): a data error is fatal for its record only: the load
\* ends returning a database that holds every well-formed record of the
\* corpus.
C5_DataErrorSkipsRecord ==
    LoadEnded =>
        /\ status = "done"
        /\ \A i \in 1 .. Len(corpus) :
              (IsRecord(corpus[i]) /\ ~DataError(corpus[i])) =>
                  Upper(corpus[i].crc) \in DOMAIN db

\* C5 (amended): a data error is fatal for the whole load: load_db raises
\* at the first record that has one, having loaded only the records before
\* it, and returns no database; it returns a database only when no record has
\* a data error, and then every record is in it.
C5_DataErrorAbortsLoad ==
    /\ status = "raised" =>
          /\ pos <= Len(corpus)
          /\ DataError(corpus[pos])
          /\ DOMAIN db = {Upper(corpus[i].crc) : i \in {j \in 1 .. pos - 1 : IsRecord(corpus[j])}}
    /\ status \in {"loading", "done"} =>
          \A i \in 1 .. pos - 1 : ~DataError(corpus[i])
    /\ status = "done" =>
          /\ pos = Len(corpus) + 1
          /\ \A i \in 1 .. Len(corpus) :
                IsRecord(corpus[i]) => Upper(corpus[i].crc) \in DOMAIN db

\* C5 witness: the load raised at a record with both pads set, and a
\* well-formed record that follows it was not loaded.
C5_Witness ==
    /\ status = "raised"
    /\ pos < Len(corpus)
    /\ PadSet(corpus[pos].board[1].pad[1].h) /\ PadSet(corpus[pos].board[1].pad[1].v)
    /\ \E i \in pos + 1 .. Len(corpus) :
          /\ IsRecord(corpus[i]) /\ ~DataError(corpus[i])
          /\ Upper(corpus[i].crc) \notin DOMAIN db

----------------------------------------------------------------------------
(* Properties of the write driver.                                         *)

\* the requests the visitor returned, in the order of the visits
RECURSIVE Returned(_)
Returned(visits) ==
    IF visits = <<>> THEN <<>>
    ELSE (IF Head(visits).request = None THEN <<>> ELSE Head(visits).request)
         \o Returned(Tail(visits))

HasHeader(file_info) == file_info.rom_info /= None

HasEntry(file_info) == file_info.crc32 \in DOMAIN db

\* C8: for every item visited, (a) no header and no entry, and (b) a header
\* and no entry, give no request; (c) no header and an entry gives one
\* Insert-Header request carrying the database record, none under dry-run;
\* (d) a header and an entry give no request when the diff is empty, and
\* otherwise one Replace-Header request carrying the database record, none
\* under dry-run.  The handler's update is handed exactly the requests
\* returned, and under dry-run there is none and update is never called.
C8_ReconciliationDecision ==
    /\ \A i \in 1 .. Len(visited) :
          LET file_info == visited[i].file_info
              request == visited[i].request
              Request(type) ==
                  Some(UpdateRequest(file_info.name, file_info.handler_data, type,
                                     db[file_info.crc32]))
          IN  /\ ~HasEntry(file_info) => request = None
              /\ (HasEntry(file_info) /\ ~HasHeader(file_info)) =>
                    request = IF dry_run THEN None ELSE Request(REQ_HEADER_INSERT)
              /\ (HasEntry(file_info) /\ HasHeader(file_info)) =>
                    request = IF diff(db[file_info.crc32], file_info.rom_info[1]) = EmptyDict
                              THEN None
                              ELSE IF dry_run THEN None
                              ELSE Request(REQ_HEADER_REPLACE)
    /\ visit_requests = Returned(visited)
    /\ zapplied /= NoZipApplied => zapplied.requests = visit_requests /\ visit_requests /= <<>>
    /\ dry_run => visit_requests = <<>> /\ zapplied = NoZipApplied /\ updates = 0

\* C8 witness: without dry-run, a visit that returned an Insert-Header
\* request for one item and a Replace-Header request for another has ended
\* with the handler's update called on both.
C8_Witness ==
    /\ ~dry_run
    /\ visit_state = "finished"
    /\ \E i, j \in 1 .. Len(visited) :
          /\ visited[i].request /= None /\ visited[i].request[1].type = REQ_HEADER_INSERT
          /\ visited[j].request /= None /\ visited[j].request[1].type = REQ_HEADER_REPLACE
    /\ zapplied.exc = "none"
    /\ Len(zapplied.requests) = 2

----------------------------------------------------------------------------
(* Properties of ROMInfo.diff.                                             *)

FourScreenValues == {MIRROR_FOUR_SCREEN, MIRROR_FOUR_SCREEN_ODD}

\* the differences that are not reported
Excepted(field, a, b) ==
    \/ /\ field = "mirroring"
       /\ MIRROR_CONTROLLED \in {a, b}
       /\ {a, b} \cap FourScreenValues = {}
    \/ /\ field = "tv_system"
       /\ TV_BOTH \in {a, b}

\* C11: a field is in a.diff(b) if and only if its two values differ and
\* the difference is not excepted: a mirroring difference is excepted
\* exactly when one of the values is mapper-controlled and neither is a
\* four-screen value, a TV difference exactly when one of the values is
\* "both", and no other field has an exception.  The entry of a field holds
\* the pair of its values.
C11_DiffEqualityWithExceptions ==
    diff_result /= Pending =>
        LET a == diff_self[1]
            b == diff_other[1]
        IN  /\ DOMAIN diff_result.val \subseteq FIELDS
            /\ \A field \in FIELDS :
                  /\ field \in DOMAIN diff_result.val <=>
                        (a[field] /= b[field] /\ ~Excepted(field, a[field], b[field]))
                  /\ field \in DOMAIN diff_result.val =>
                        diff_result.val[field] = <<a[field], b[field]>>

\* C11 witness: a diff that left out the difference between mapper-controlled
\* and vertical mirroring, and reported another field that differs.
C11_Witness ==
    /\ diff_result /= Pending
    /\ diff_self[1].mirroring = MIRROR_CONTROLLED
    /\ diff_other[1].mirroring = MIRROR_VERTICAL
    /\ "mirroring" \notin DOMAIN diff_result.val
    /\ "mapper" \in DOMAIN diff_result.val

----------------------------------------------------------------------------
(* Properties of load_db's merge of entries with one checksum.             *)

\* the record parse_db_entry makes of a well-formed element
Candidate(elem) == parse_db_entry(elem).val[2]

\* the loop is about to take a well-formed record whose checksum is in db
Collision ==
    /\ status = "loading"
    /\ pos <= Len(corpus)
    /\ IsRecord(corpus[pos])
    /\ ~DataError(corpus[pos])
    /\ Upper(corpus[pos].crc) \in DOMAIN db

\* the fields other than TV timing in which two records differ, exceptions
\* applied
OtherDifferences(a, b) ==
    {field \in FIELDS \ {"tv_system"} :
        a[field] /= b[field] /\ ~Excepted(field, a[field], b[field])}

\* C12: on a collision where the existing record and the candidate differ
\* in no field other than TV timing (exceptions applied) and one is NTSC and
\* the other PAL, the existing record's TV timing becomes "both" and its
\* other fields, and the other records, stay as they are.
C12_TvUpgrade ==
    [][(/\ Collision
        /\ LET crc == Upper(corpus[pos].crc)
               candidate == Candidate(corpus[pos])
           IN  /\ OtherDifferences(db[crc], candidate) = {}
               /\ {db[crc].tv_system, candidate.tv_system} = {TV_NTSC, TV_PAL})
       => db' = [db EXCEPT ![Upper(corpus[pos].crc)].tv_system = TV_BOTH]]_vars

\* C12 witness: an NTSC entry and then a PAL entry of the same board were
\* loaded, and the record is the first entry's with TV timing "both".
C12_Witness ==
    /\ pos = 3
    /\ IsRecord(corpus[1]) /\ IsRecord(corpus[2])
    /\ corpus[1].system = "NES-NTSC"
    /\ corpus[2].system = "NES-PAL"
    /\ corpus[1].crc = corpus[2].crc
    /\ corpus[1].board = corpus[2].board
    /\ db[Upper(corpus[1].crc)] = [Candidate(corpus[1]) EXCEPT !.tv_system = TV_BOTH]

\* the first record of the corpus with the checksum
FirstSeen(crc) ==
    CHOOSE i \in 1 .. Len(corpus) :
        /\ IsRecord(corpus[i]) /\ Upper(corpus[i].crc) = crc
        /\ \A j \in 1 .. i - 1 : ~(IsRecord(corpus[j]) /\ Upper(corpus[j].crc) = crc)

FirstSeenKept ==
    \A crc \in DOMAIN db :
        LET first == Candidate(corpus[FirstSeen(crc)])
        IN  \A field \in FIELDS \ {"tv_system"} : db[crc][field] = first[field]

\* C13: after every step of the load, every field other than TV timing of
\* every stored record is that of the first entry seen for its checksum;
\* and a colliding candidate that differs from the existing record in a
\* field other than TV timing (exceptions applied) leaves the whole db, TV
\* timing included, as it was.
C13_FirstSeenWins ==
    /\ []FirstSeenKept
    /\ [][(Collision /\ OtherDifferences(db[Upper(corpus[pos].crc)],
                                         Candidate(corpus[pos])) /= {})
             => db' = db]_vars

\* C13 witness: after an entry, an entry with the same checksum and another
\* mapper was loaded; the record is the first entry's, and the warning was
\* logged.
C13_Witness ==
    /\ pos = 3
    /\ IsRecord(corpus[1]) /\ IsRecord(corpus[2])
    /\ corpus[1].crc = corpus[2].crc
    /\ corpus[1].board[1].mapper = None
    /\ corpus[2].board[1].mapper = Some(<<"4">>)
    /\ db[Upper(corpus[1].crc)] = Candidate(corpus[1])
    /\ \E i \in 1 .. Len(log) : log[i].kind = "multiple different"

----------------------------------------------------------------------------
(* Properties of parse_db_entry's mirroring.                               *)

\* The mirroring of a board declaration by the priority rule, None where
\* the rule makes the declaration a data error.
RuleMirroring(board) ==
    LET declared == board.pad /= <<>>
        h == declared /\ PadSet(board.pad[1].h)
        v == declared /\ PadSet(board.pad[1].v)
    IN  IF board.type /= None /\ board.type[1] \in FOUR_SCREEN_BOARDS
        THEN IF h \/ v THEN None ELSE Some(MIRROR_FOUR_SCREEN)
        ELSE IF ~declared THEN Some(MIRROR_CONTROLLED)
        ELSE IF h = v THEN None
        ELSE IF h THEN Some(MIRROR_VERTICAL)
        ELSE Some(MIRROR_HORIZONTAL)

\* C14 (as claimed): every record the load has taken has a mirroring by the
\* priority rule, which is the mirroring stored for the first record of a
\* checksum, and the load raises only at a record the rule makes a data
\* error.
C14_MirroringPriority ==
    /\ \A i \in 1 .. pos - 1 :
          IsRecord(corpus[i]) =>
            /\ RuleMirroring(corpus[i].board[1]) /= None
            /\ i = FirstSeen(Upper(corpus[i].crc)) =>
                  Some(db[Upper(corpus[i].crc)].mirroring) = RuleMirroring(corpus[i].board[1])
    /\ status = "raised" => RuleMirroring(corpus[pos].board[1]) = None

----------------------------------------------------------------------------
(* Properties of repeated runs of cmd_write.                               *)

\* C15 (as claimed): when the first of two runs without dry-run found a
\* bare file whose checksum has a database record with representable
\* fields and a program-RAM size that is a multiple of 8192, the second run
\* computes the same checksum, reports that the header matches the database
\* and emits no request.
C15_ConvergesAfterOnePass ==
    (/\ pass = 2
     /\ ~dry_run
     /\ visited /= <<>>
     /\ visited[1].pass = 1
     /\ ~HasHeader(visited[1].file_info)
     /\ HasEntry(visited[1].file_info)
     /\ Representable(db[visited[1].file_info.crc32])
     /\ db[visited[1].file_info.crc32].prg_ram_size % 8192 = 0) =>
        /\ visit_state = "finished"
        /\ Len(visited) = 2
        /\ visited[2].pass = 2
        /\ visited[2].file_info.crc32 = visited[1].file_info.crc32
        /\ visited[2].printed = "header matches database"
        /\ visited[2].request = None
        /\ visit_requests = <<>>

============================================================================
